---------------------------- MODULE Spec2Model ----------------------------
(***************************************************************************)
(* Trade-offer gift allocation (Al Fakher Mexico tools).                   *)
(*                                                                         *)
(* Money is held in integer cents (the code's floats carry two decimals),  *)
(* ROI percentages in hundredths of a percent (the code rounds every ROI   *)
(* to two decimals), weights in grams.  Gift unit values stay in dollars   *)
(* as in the code (38 and 400) and are scaled where they meet money.       *)
(***************************************************************************)
EXTENDS Integers, Sequences, FiniteSets, TLC

(***************************************************************************)
(* Bounds of the model.                                                    *)
(***************************************************************************)
\* 1kg quantities are drawn around the hookah weight thresholds: 50*k and
\* 50*k + 1 packs for k in 1..MaxWeightBands (50, 51, 100, 101 kg).
MaxWeightBands == 2
\* Budgets handed directly to recommend_gift: a grid of half Pack-FOC values
\* ($19) from -MaxBudgetNeg to MaxBudgetPos steps, plus the branch boundaries.
MaxBudgetPos == 45
MaxBudgetNeg == 22
\* Positions a user drags the Pack FOC slider to: within SliderEdge of either
\* end of its range.
SliderEdge == 1
\* Orders classified around a tier threshold: within ThresholdSteps packs of
\* 50g of it.
ThresholdSteps == 1
\* Hand-edited allocations handed to adjust_gifts_for_tier_roi: up to
\* MaxCustomPackFoc Pack FOC (with 0, 1 or 2 hookahs).
MaxCustomPackFoc == 8
\* The adjustments of one optimize_budget call are counted up to
\* MaxIterations (the count stays there when the loop goes on).
MaxIterations == 16

(***************************************************************************)
(* Program constants.                                                      *)
(***************************************************************************)
RETAILER == 1
TOBACCO_SHOP == 2
CustomerType == {RETAILER, TOBACCO_SHOP}

Sizes == {"50g", "250g", "1kg"}
GiftTypes == {"Pack FOC", "Hookah"}

DEFAULT_PRICES == [s \in Sizes |-> CASE s = "50g" -> 3280
                                     [] s = "250g" -> 17681
                                     [] s = "1kg" -> 63883]

(***************************************************************************)
(* Input domains.                                                          *)
(***************************************************************************)
\* A cheap price table (a heavy order of low value) and an all-zero table
\* (a zero-value order), beside the default table.
CheapPrices == [s \in Sizes |-> CASE s = "50g" -> 1000
                                  [] s = "250g" -> 5000
                                  [] s = "1kg" -> 19608]
ZeroPrices == [s \in Sizes |-> 0]
PriceTables == {DEFAULT_PRICES, CheapPrices, ZeroPrices}

Qty50gChoices == {0, 10}
Qty250gChoices == {0, 3}
Qty1kgChoices == {0, 2} \cup {50 * k + d : k \in 1..MaxWeightBands, d \in {0, 1}}
QuantityChoices == {[s \in Sizes |-> CASE s = "50g" -> a
                                       [] s = "250g" -> b
                                       [] s = "1kg" -> c] :
                       a \in Qty50gChoices, b \in Qty250gChoices, c \in Qty1kgChoices}

\* Orders handed to the classification of main(): every order of at most 10
\* packs of 50g, 3 of 250g and 2 of 1kg (the quantities the product rule
\* tests, and so every order the rule rejects), and the orders around each
\* tier threshold, in 50g packs only, in 250g packs only (where the weight is
\* a multiple of 250) and in 1kg packs topped up with 50g packs.
Order3(a, b, c) ==
    [s \in Sizes |-> CASE s = "50g" -> a [] s = "250g" -> b [] s = "1kg" -> c]
SmallOrders == {Order3(a, b, c) : a \in 0..10, b \in 0..3, c \in 0..2}
ThresholdWeights ==
    {w + 50 * d : w \in {6000, 66050, 126050, 246050},
                  d \in (0 - ThresholdSteps)..ThresholdSteps}
ThresholdOrders ==
    {Order3(w \div 50, 0, 0) : w \in ThresholdWeights}
    \cup {Order3(0, w \div 250, 0) : w \in {v \in ThresholdWeights : v % 250 = 0}}
    \cup {Order3((w % 1000) \div 50, 0, w \div 1000) : w \in ThresholdWeights}
    \cup {Order3(0, (w - 1000) \div 250, 1) : w \in {v \in ThresholdWeights : v % 250 = 0}}
ClassifyQuantities == SmallOrders \cup ThresholdOrders

\* The eligible_tier arguments of adjust_gifts_for_tier_roi: no tier, or one
\* of the four.
Tiers == {"Silver", "Gold", "Diamond", "Platinum"}
TierArguments == Tiers \cup {""}

\* Target ROI percentages, in hundredths of a percent: 0% and the tier targets.
\* (For these targets the float test abs(actual_roi - target) > 0.1 agrees
\* with the exact comparison, also at a distance of exactly 0.1.)
TargetROIs == {0, 500, 700, 900, 1300}

BudgetGridStep == 3800 \div 2
BoundaryBudgets == {b + d : b \in {-40000, -3800, 0, 3800, 40000, 80000}, d \in {-1, 0, 1}}
Budgets == {BudgetGridStep * k : k \in (0 - MaxBudgetNeg)..MaxBudgetPos} \cup BoundaryBudgets

SliderChoices(upper) ==
    {v \in 0..upper : v <= SliderEdge \/ v >= upper - SliderEdge}

(***************************************************************************)
(* Arithmetic helpers: Python's int(), math.floor() and round().           *)
(***************************************************************************)
Min(a, b) == IF a <= b THEN a ELSE b
Abs(a) == IF a >= 0 THEN a ELSE 0 - a

\* Mutant: int() rounds down.
IntTrunc_Floor(a, b) == a \div b

\* int(a / b) for b > 0: truncation toward zero.
IntTrunc(a, b) == IF a >= 0 THEN a \div b ELSE 0 - ((0 - a) \div b)

\* math.floor(a / b) for b > 0.
Floor(a, b) == a \div b

\* round() of num / den to an integer, for num >= 0 and den > 0.  The code
\* rounds a float product: away from an exact half the nearest integer is
\* certain; at an exact half the float lies a rounding error above or below
\* it, and tie_up tells on which side.
RoundFloat(num, den, tie_up) ==
    LET q == num \div den
        r == num % den
    IN  IF 2 * r > den THEN q + 1
        ELSE IF 2 * r < den THEN q
        ELSE IF tie_up THEN q + 1 ELSE q

\* <<floor(num * 10^k / den), remainder>>, by long division (one decimal
\* digit per step, so that no intermediate product leaves 32 bits).
RECURSIVE LongDiv(_, _, _)
LongDiv(num, den, k) ==
    IF k = 0 THEN <<num \div den, num % den>>
    ELSE LET p == LongDiv(num, den, k - 1)
         IN  <<p[1] * 10 + (p[2] * 10) \div den, (p[2] * 10) % den>>

\* round(num * 10^k / den), half to even.
ScaledRound(num, den, k) ==
    LET p == LongDiv(num, den, k)
    IN  IF 2 * p[2] > den THEN p[1] + 1
        ELSE IF 2 * p[2] < den THEN p[1]
        ELSE IF p[1] % 2 = 0 THEN p[1] ELSE p[1] + 1

(***************************************************************************)
(* utils.py                                                                *)
(***************************************************************************)
\* total_value in cents: sum of quantity * price over the ordered sizes.
generate_order_summary(price_data, qs) ==
    [quantities |-> qs,
     prices |-> price_data,
     total_value |-> qs["50g"] * price_data["50g"]
                     + qs["250g"] * price_data["250g"]
                     + qs["1kg"] * price_data["1kg"]]

\* Gift value in dollars.
calculate_gift_value(gift_type, quantity) ==
    IF gift_type = "Pack FOC" THEN quantity * 38
    ELSE IF gift_type = "Hookah" THEN quantity * 400
    ELSE 0

Gifts(pack_foc, hookah) ==
    [g \in GiftTypes |-> IF g = "Pack FOC" THEN pack_foc ELSE hookah]

\* budget in cents; int() truncates toward zero.
get_max_gift_quantities(b, ct, order_value) ==
    Gifts(IntTrunc(b, 3800),
          IF ct = TOBACCO_SHOP THEN IntTrunc(b, 40000) ELSE 0)

(***************************************************************************)
(* algorithms.py                                                           *)
(***************************************************************************)
total_order_weight_g(order_data) ==
    order_data.quantities["50g"] * 50
    + order_data.quantities["250g"] * 250
    + order_data.quantities["1kg"] * 1000

\* Mutant: the one-hookah branch forgets its budget test.
HookahAllocation_NoBudgetTest(order_data, ct, b) ==
    LET max_quantities == get_max_gift_quantities(b, ct, order_data.total_value)
        weight_g == total_order_weight_g(order_data)
    IN  IF ct = TOBACCO_SHOP
        THEN IF weight_g > 100000 /\ b >= 80000
             THEN Min(2, max_quantities["Hookah"])
             ELSE IF weight_g > 50000 THEN 1 ELSE 0
        ELSE 0

\* Mutant: the budget test of the two-hookah branch is turned around.
HookahAllocation_FlippedBudgetTest(order_data, ct, b) ==
    LET max_quantities == get_max_gift_quantities(b, ct, order_data.total_value)
        weight_g == total_order_weight_g(order_data)
    IN  IF ct = TOBACCO_SHOP
        THEN IF weight_g > 100000 /\ b <= 80000
             THEN Min(2, max_quantities["Hookah"])
             ELSE IF weight_g > 50000 /\ b >= 40000 THEN 1 ELSE 0
        ELSE 0

\* Mutant: the weight bounds are inclusive.
HookahAllocation_InclusiveWeight(order_data, ct, b) ==
    LET max_quantities == get_max_gift_quantities(b, ct, order_data.total_value)
        weight_g == total_order_weight_g(order_data)
    IN  IF ct = TOBACCO_SHOP
        THEN IF weight_g >= 100000 /\ b >= 80000
             THEN Min(2, max_quantities["Hookah"])
             ELSE IF weight_g >= 50000 /\ b >= 40000 THEN 1 ELSE 0
        ELSE 0

\* Mutant: the hookah branch does not test the customer type.
HookahAllocation_AnyCustomer(order_data, ct, b) ==
    LET max_quantities == get_max_gift_quantities(b, TOBACCO_SHOP, order_data.total_value)
        weight_g == total_order_weight_g(order_data)
    IN  IF weight_g > 100000 /\ b >= 80000
        THEN Min(2, max_quantities["Hookah"])
        ELSE IF weight_g > 50000 /\ b >= 40000 THEN 1 ELSE 0

\* Hookah pre-allocation (lines 36-45): first match wins.
HookahAllocation(order_data, ct, b) ==
    LET max_quantities == get_max_gift_quantities(b, ct, order_data.total_value)
        weight_g == total_order_weight_g(order_data)
    IN  IF ct = TOBACCO_SHOP
        THEN IF weight_g > 100000 /\ b >= 80000
             THEN Min(2, max_quantities["Hookah"])
             ELSE IF weight_g > 50000 /\ b >= 40000 THEN 1 ELSE 0
        ELSE 0

\* Mutant: the fill is computed without the test remaining_budget > 0.
PackFocAllocation_NoPositiveTest(ct, b, hookah, order_value) ==
    LET max_quantities == get_max_gift_quantities(b, ct, order_value)
        remaining_budget == b - hookah * 40000
    IN  Min(Floor(remaining_budget, 3800), max_quantities["Pack FOC"])

\* Mutant: the fill is computed from the whole budget, hookahs not deducted.
PackFocAllocation_WholeBudget(ct, b, hookah, order_value) ==
    LET max_quantities == get_max_gift_quantities(b, ct, order_value)
        remaining_budget == b
    IN  IF remaining_budget > 0
        THEN Min(Floor(remaining_budget, 3800), max_quantities["Pack FOC"])
        ELSE 0

\* Mutant: the fill rounds the quotient up.
PackFocAllocation_RoundsUp(ct, b, hookah, order_value) ==
    LET remaining_budget == b - hookah * 40000
    IN  IF remaining_budget > 0 THEN (remaining_budget + 3799) \div 3800 ELSE 0

\* Pack FOC fill (lines 47-50) from the budget left after the hookahs.
PackFocAllocation(ct, b, hookah, order_value) ==
    LET max_quantities == get_max_gift_quantities(b, ct, order_value)
        remaining_budget == b - hookah * 40000
    IN  IF remaining_budget > 0
        THEN Min(Floor(remaining_budget, 3800), max_quantities["Pack FOC"])
        ELSE 0

recommend_gift(order_data, ct, b) ==
    LET hookah == HookahAllocation(order_data, ct, b)
    IN  Gifts(PackFocAllocation(ct, b, hookah, order_data.total_value), hookah)

\* Mutant: the percentage is divided by 1000.
calculate_budget_from_roi_PerMille(order_data, target_roi_percentage, tie_up) ==
    LET a == order_data.total_value \div 100000
        r == order_data.total_value % 100000
    IN  a * target_roi_percentage + RoundFloat(r * target_roi_percentage, 100000, tie_up)

\* round(total_value * (roi / 100), 2), in cents; roi in hundredths of a percent.
calculate_budget_from_roi(order_data, target_roi_percentage, tie_up) ==
    LET a == order_data.total_value \div 10000
        r == order_data.total_value % 10000
    IN  a * target_roi_percentage + RoundFloat(r * target_roi_percentage, 10000, tie_up)

\* Mutant: the loop tolerates a whole percent.
OutsideTolerance_WholePercent(roi, target) == Abs(roi - target) > 100

\* The loop test of optimize_budget: abs(actual_roi - target) > 0.1.
OutsideTolerance(roi, target) == Abs(roi - target) > 10

\* Mutant: a zero-value order is given the ROI of an order worth one cent.
calculate_roi_NoValueTest(order_data, gs, b) ==
    LET gift_value == calculate_gift_value("Pack FOC", gs["Pack FOC"])
                      + calculate_gift_value("Hookah", gs["Hookah"])
    IN  ScaledRound(gift_value * 100,
                    IF order_data.total_value > 0 THEN order_data.total_value ELSE 1, 4)

\* round(gift_value / total_value * 100, 2), in hundredths of a percent
\* (half to even; no modelled order meets an exact half).
calculate_roi(order_data, gs, b) ==
    LET gift_value == calculate_gift_value("Pack FOC", gs["Pack FOC"])
                      + calculate_gift_value("Hookah", gs["Hookah"])
    IN  IF order_data.total_value > 0
        THEN ScaledRound(gift_value * 100, order_data.total_value, 4)
        ELSE 0

(***************************************************************************)
(* State.                                                                  *)
(***************************************************************************)
VARIABLES
    quantities,         \* order quantities per pack size (the qty_* inputs)
    prices,             \* price table, cents per pack (session price_data)
    customer_type,      \* RETAILER or TOBACCO_SHOP
    customer_info,      \* customer_name and customer_address of the session
    float_tie_up,       \* side on which a float product at an exact half cent falls
    pc,                 \* position of the running call; "session" in the app
    budget,             \* budget of the running call, cents
    target_roi,         \* target ROI of optimize_budget, hundredths of a percent
    gifts,              \* gift_quantities / gifts of the running call
    actual_roi,         \* actual_roi of optimize_budget, hundredths of a percent
    session,            \* st.session_state: the calculation entries, by key
    saved,              \* the save_order calls of the last script run
    classification,     \* is_eligible, eligible_tier and product_eligible of main()
    tier_name,          \* eligible_tier argument of adjust_gifts_for_tier_roi
    input_gifts,        \* custom_gifts argument of adjust_gifts_for_tier_roi
    iterations          \* adjustments made by the loop of optimize_budget

vars == <<quantities, prices, customer_type, customer_info, float_tie_up, pc, budget,
          target_roi,
          gifts, actual_roi, session, saved, classification, tier_name, input_gifts,
          iterations>>

\* The variables only the classification and the tier adjustment use.
call_vars == <<classification, tier_name, input_gifts>>

order == generate_order_summary(prices, quantities)

NoSession == [k \in {} |-> 0]

\* app.py, lines 230-233: the customer's name and address start empty.
NoCustomerInfo == [customer_name |-> "", customer_address |-> ""]

\* Before main() classified an order, and before adjust_gifts_for_tier_roi
\* was called.
NoClassification ==
    [is_eligible |-> FALSE, eligible_tier |-> "", product_eligible |-> FALSE]
NoCall ==
    /\ classification = NoClassification
    /\ tier_name = ""
    /\ input_gifts = [g \in {"Pack FOC", "Hookah"} |-> 0]

(***************************************************************************)
(* Direct calls of the allocator: recommend_gift and optimize_budget.      *)
(***************************************************************************)
Init ==
    /\ quantities \in QuantityChoices
    /\ prices \in PriceTables
    /\ customer_type \in CustomerType
    /\ customer_info = NoCustomerInfo
    /\ float_tie_up \in BOOLEAN
    /\ pc = "idle"
    /\ budget = 0
    /\ target_roi = 0
    /\ gifts = Gifts(0, 0)
    /\ actual_roi = 0
    /\ session = NoSession
    /\ saved = <<>>
    /\ NoCall
    /\ iterations = 0

\* The budgets a caller derives from the order for a target ROI.
DerivedBudgets ==
    {calculate_budget_from_roi(order, t, float_tie_up) : t \in TargetROIs}

\* A call recommend_gift(order_data, customer_type, budget).
RecommendGift ==
    /\ pc = "idle"
    /\ \E b \in Budgets \cup DerivedBudgets :
        /\ budget' = b
        /\ gifts' = recommend_gift(order, customer_type, b)
    /\ pc' = "recommended"
    /\ UNCHANGED <<quantities, prices, customer_type, customer_info, float_tie_up, target_roi,
                   actual_roi, session, saved, call_vars, iterations>>

\* optimize_budget, lines 85-92: budget, first recommendation and its ROI.
OptimizeBudget ==
    /\ pc = "idle"
    /\ \E t \in TargetROIs :
        LET b == calculate_budget_from_roi(order, t, float_tie_up)
            g == recommend_gift(order, customer_type, b)
        IN  /\ target_roi' = t
            /\ budget' = b
            /\ gifts' = g
            /\ actual_roi' = calculate_roi(order, g, b)
    /\ pc' = "while"
    /\ iterations' = 0
    /\ UNCHANGED <<quantities, prices, customer_type, customer_info, float_tie_up, session, saved,
                   call_vars>>

\* Mutant: at the Pack FOC maximum the loop adds a hookah and goes on while
\* fewer than two are allocated.
WhileIteration_AddsHookah ==
    /\ pc = "while"
    /\ IF OutsideTolerance(actual_roi, target_roi)
       THEN IF actual_roi > target_roi
            THEN IF gifts["Pack FOC"] > 0
                 THEN /\ gifts' = [gifts EXCEPT !["Pack FOC"] = @ - 1]
                      /\ pc' = "while"
                 ELSE IF gifts["Hookah"] > 0
                      THEN /\ gifts' = [gifts EXCEPT !["Hookah"] = @ - 1]
                           /\ pc' = "while"
                      ELSE /\ gifts' = gifts
                           /\ pc' = "return"
            ELSE LET max_quantities ==
                         get_max_gift_quantities(budget, customer_type, order.total_value)
                 IN  IF gifts["Pack FOC"] < max_quantities["Pack FOC"]
                     THEN /\ gifts' = [gifts EXCEPT !["Pack FOC"] = @ + 1]
                          /\ pc' = "while"
                     ELSE IF gifts["Hookah"] < 2
                          THEN /\ gifts' = [gifts EXCEPT !["Hookah"] = @ + 1]
                               /\ pc' = "while"
                          ELSE /\ gifts' = gifts
                               /\ pc' = "return"
       ELSE /\ gifts' = gifts
            /\ pc' = "return"
    /\ actual_roi' = calculate_roi(order, gifts', budget)
    /\ iterations' = IF pc' = "while" THEN Min(iterations + 1, MaxIterations)
                     ELSE iterations
    /\ UNCHANGED <<quantities, prices, customer_type, customer_info, float_tie_up, budget,
                   target_roi, session, saved, call_vars>>

\* One evaluation of the while loop of optimize_budget (lines 96-118): the
\* loop test, then one adjustment and the ROI recomputation, or a break.
WhileIteration ==
    /\ pc = "while"
    /\ IF OutsideTolerance(actual_roi, target_roi)
       THEN IF actual_roi > target_roi
            THEN IF gifts["Pack FOC"] > 0
                 THEN /\ gifts' = [gifts EXCEPT !["Pack FOC"] = @ - 1]
                      /\ pc' = "while"
                 ELSE IF gifts["Hookah"] > 0
                      THEN /\ gifts' = [gifts EXCEPT !["Hookah"] = @ - 1]
                           /\ pc' = "while"
                      ELSE /\ gifts' = gifts
                           /\ pc' = "return"
            ELSE LET max_quantities ==
                         get_max_gift_quantities(budget, customer_type, order.total_value)
                 IN  IF gifts["Pack FOC"] < max_quantities["Pack FOC"]
                     THEN /\ gifts' = [gifts EXCEPT !["Pack FOC"] = @ + 1]
                          /\ pc' = "while"
                     ELSE /\ gifts' = gifts
                          /\ pc' = "return"
       ELSE /\ gifts' = gifts
            /\ pc' = "return"
    /\ actual_roi' = calculate_roi(order, gifts', budget)
    /\ iterations' = IF pc' = "while" THEN Min(iterations + 1, MaxIterations)
                     ELSE iterations
    /\ UNCHANGED <<quantities, prices, customer_type, customer_info, float_tie_up, budget,
                   target_roi, session, saved, call_vars>>

Next == RecommendGift \/ OptimizeBudget \/ WhileIteration

Spec == Init /\ [][Next]_vars

\* The loop of optimize_budget is the only code that runs while the call is
\* in it: an iteration that can be taken is taken.
FairSpec == Init /\ [][Next]_vars /\ WF_vars(WhileIteration)


(***************************************************************************)
(* app.py: the Trade Offer Calculator page and its session.                *)
(***************************************************************************)
\* Lines 326-334.
total_grams(order_data) ==
    order_data.quantities["50g"] * 50
    + order_data.quantities["250g"] * 250
    + order_data.quantities["1kg"] * 1000

\* Mutant: every order passes the weight gate.
is_eligible_AnyWeight(order_data) == total_grams(order_data) >= 0

\* Lines 339-352.
is_eligible(order_data) == ~(total_grams(order_data) < 6000)

\* Mutant: the tiers above Silver do not ask for a 1kg pack.
eligible_tier_AnyPack(order_data) ==
    LET grams == order_data.quantities["50g"] * 50
                 + order_data.quantities["250g"] * 250
                 + order_data.quantities["1kg"] * 1000
    IN  IF grams < 6000 THEN "Silver"
        ELSE IF grams >= 246050 THEN "Platinum"
        ELSE IF grams >= 126050 THEN "Diamond"
        ELSE IF grams >= 66050 THEN "Gold"
        ELSE "Silver"

eligible_tier(order_data) ==
    LET has_1kg_order == order_data.quantities["1kg"] > 0
        grams == total_grams(order_data)
    IN  IF grams < 6000 THEN "Silver"
        ELSE IF grams >= 246050 /\ has_1kg_order THEN "Platinum"
        ELSE IF grams >= 126050 /\ has_1kg_order THEN "Diamond"
        ELSE IF grams >= 66050 /\ has_1kg_order THEN "Gold"
        ELSE "Silver"

\* Mutant: only the 50g rule makes an order eligible.
is_eligible_for_gift_Only50g(order_data) ==
    order_data.quantities["50g"] >= 10

\* utils.py, lines 72-90.
is_eligible_for_gift(order_data) ==
    \/ order_data.quantities["50g"] >= 10
    \/ order_data.quantities["250g"] >= 3
    \/ order_data.quantities["1kg"] >= 2

\* Lines 379-387: the tier's ROI percentage, hundredths of a percent.
roi_options(tier) ==
    CASE tier = "Silver" -> 500
      [] tier = "Gold" -> 700
      [] tier = "Diamond" -> 900
      [] tier = "Platinum" -> 1300
      [] OTHER -> 500

\* Mutant: the limits are a tenth of the table's (1.3 / 1.45 / 1.6 / 1.8).
tier_roi_Tenth(tier) ==
    CASE tier = "Silver" -> 130
      [] tier = "Gold" -> 145
      [] tier = "Diamond" -> 160
      [] tier = "Platinum" -> 180
      [] OTHER -> 130

\* Lines 155-166: the tier's ROI limit, hundredths of a percent.
tier_roi(tier) ==
    CASE tier = "Silver" -> 1300
      [] tier = "Gold" -> 1450
      [] tier = "Diamond" -> 1600
      [] tier = "Platinum" -> 1800
      [] OTHER -> 1300

\* Lines 176-187: the reducing loop of adjust_gifts_for_tier_roi.
RECURSIVE ReduceToTierRoi(_, _, _, _)
ReduceToTierRoi(order_data, limit, adjusted_gifts, b) ==
    IF calculate_roi(order_data, adjusted_gifts, b) > limit
    THEN IF adjusted_gifts["Pack FOC"] > 0
         THEN ReduceToTierRoi(order_data, limit,
                  [adjusted_gifts EXCEPT !["Pack FOC"] = @ - 1], b)
         ELSE IF adjusted_gifts["Hookah"] > 0
              THEN ReduceToTierRoi(order_data, limit,
                       [adjusted_gifts EXCEPT !["Hookah"] = @ - 1], b)
              ELSE adjusted_gifts
    ELSE adjusted_gifts

\* Lines 138-187.
adjust_gifts_for_tier_roi(order_data, tier, custom_gifts, b) ==
    IF tier = "" THEN custom_gifts
    ELSE IF calculate_roi(order_data, custom_gifts, b) <= tier_roi(tier)
         THEN custom_gifts
         ELSE ReduceToTierRoi(order_data, tier_roi(tier), custom_gifts, b)

\* The session entries of a gift calculation (lines 203-206, 254-263).
custom_gift_keys ==
    {"custom_pack_foc", "custom_hookah", "original_gifts", "custom_gifts",
     "applied_custom_gifts"}

Del(sess, keys) == [k \in DOMAIN sess \ keys |-> sess[k]]
Put(sess, key, value) ==
    [k \in DOMAIN sess \cup {key} |-> IF k = key THEN value ELSE sess[k]]

\* Lines 252-263 and 291-302: the on_change callbacks of the inputs.
reset_on_customer_type_change(sess) == Del(sess, custom_gift_keys)
\* Mutant: the callback of the quantity inputs deletes nothing.
reset_on_qty_change_KeepsEntries(sess) == sess

reset_on_qty_change(sess) == Del(sess, custom_gift_keys)

\* The keys of the widgets of main() (lines 271-314).
widget_keys == {"customer_type_radio", "qty_50g", "qty_250g", "qty_1kg"}

\* Lines 199-200.
preserve_keys == {"price_data", "customer_name", "customer_address", "customer_type"}

\* The key of the quantity input of a pack size (lines 304-314).
QtyKey(s) ==
    CASE s = "50g" -> "qty_50g"
      [] s = "250g" -> "qty_250g"
      [] s = "1kg" -> "qty_1kg"

\* st.session_state as a run of main() holds it: the calculation entries,
\* the price table, the customer's name, address and type, and the values
\* of the keyed widgets.
SessionState(sess, qs, price_data, ct, info) ==
    [k \in DOMAIN sess \cup widget_keys \cup preserve_keys |->
        CASE k = "price_data" -> price_data
          [] k = "customer_name" -> info.customer_name
          [] k = "customer_address" -> info.customer_address
          [] k = "customer_type" -> ct
          [] k = "customer_type_radio" ->
                 IF ct = TOBACCO_SHOP THEN "Tobacco Shop" ELSE "Retailer"
          [] k = "qty_50g" -> qs["50g"]
          [] k = "qty_250g" -> qs["250g"]
          [] k = "qty_1kg" -> qs["1kg"]
          [] OTHER -> sess[k]]

\* Mutant: nothing is read before the deletion; the four keys are written
\* with their defaults.
reset_all_calculations_Defaults(state) ==
    Put(Put(Put(Put(Del(state, DOMAIN state),
        "price_data", DEFAULT_PRICES),
        "customer_name", ""),
        "customer_address", ""),
        "customer_type", RETAILER)

\* Lines 189-223 on the whole of st.session_state: the four preserved
\* values are read (with their defaults), the calculation entries and then
\* every key outside preserve_keys are deleted, the four are written back.
\* (The session holds no key that starts with an underscore.)
reset_all_calculations(state) ==
    LET price_data == IF "price_data" \in DOMAIN state
                      THEN state["price_data"] ELSE DEFAULT_PRICES
        name == IF "customer_name" \in DOMAIN state
                THEN state["customer_name"] ELSE ""
        address == IF "customer_address" \in DOMAIN state
                   THEN state["customer_address"] ELSE ""
        ct == IF "customer_type" \in DOMAIN state
              THEN state["customer_type"] ELSE RETAILER
        cleared == Del(state, custom_gift_keys)
        kept == Del(cleared, {k \in DOMAIN cleared : k \notin preserve_keys})
    IN  Put(Put(Put(Put(kept,
            "price_data", price_data),
            "customer_name", name),
            "customer_address", address),
            "customer_type", ct)

\* The calculation entries of a session state.
CalculationEntries(state) == [k \in DOMAIN state \cap custom_gift_keys |-> state[k]]

\* Lines 304-314: a quantity input returns the value under its key, or 0
\* (value=0) when the key is not in the session.
WidgetQuantities(state) ==
    [s \in Sizes |-> IF QtyKey(s) \in DOMAIN state THEN state[QtyKey(s)] ELSE 0]

\* The quantity inputs after their keys were deleted: the default, 0.
DefaultQuantities == [s \in Sizes |-> 0]

\* Lines 412-423: the recommendation is computed when none is stored.
StoreRecommendation(sess, order_data, ct, b) ==
    IF "original_gifts" \notin DOMAIN sess
    THEN LET recommended_gifts == recommend_gift(order_data, ct, b)
         IN  Put(Put(Put(Put(Put(sess,
                 "original_gifts", recommended_gifts),
                 "custom_gifts", recommended_gifts),
                 "applied_custom_gifts", FALSE),
                 "custom_pack_foc", recommended_gifts["Pack FOC"]),
                 "custom_hookah", recommended_gifts["Hookah"])
    ELSE sess

\* Lines 463-475 and 598-610: the arguments of save_order.
SaveOrderCall(order_data, ct, tier, b, current_gifts) ==
    [customer_type |-> ct,
     total_order_value |-> order_data.total_value,
     quantities |-> order_data.quantities,
     prices |-> order_data.prices,
     total_weight_g |-> total_grams(order_data),
     eligible_tier |-> tier,
     roi_percentage |-> roi_options(tier),
     budget |-> b,
     gifts |-> current_gifts]

\* Lines 505-512: the Pack FOC slider returns the value the user set, or
\* the value it was created with.
SliderPackFoc(sess, ev) ==
    IF ev.kind = "slider" THEN ev.pack_foc ELSE sess["custom_pack_foc"]

\* Lines 514-526: the Hookah slider, shown to Tobacco Shops only.
SliderHookah(sess, ct, ev) ==
    IF ct = TOBACCO_SHOP
    THEN IF ev.kind = "slider" THEN ev.hookah ELSE sess["custom_hookah"]
    ELSE 0

\* The upper ends of the sliders (lines 508 and 519); a slider widens its
\* range to hold the value it is created with.
SliderMaxPackFoc(sess, ct, b, order_value) ==
    LET max_quantities == get_max_gift_quantities(b, ct, order_value)
    IN  IF sess["custom_pack_foc"] > max_quantities["Pack FOC"]
        THEN sess["custom_pack_foc"] ELSE max_quantities["Pack FOC"]

\* Mutant: the Hookah slider ends at the budget's maximum, without min(2, .).
SliderMaxHookah_Uncapped(sess, ct, b, order_value) ==
    LET max_quantities == get_max_gift_quantities(b, ct, order_value)
        upper == max_quantities["Hookah"]
    IN  IF sess["custom_hookah"] > upper THEN sess["custom_hookah"] ELSE upper

SliderMaxHookah(sess, ct, b, order_value) ==
    LET max_quantities == get_max_gift_quantities(b, ct, order_value)
        upper == Min(2, max_quantities["Hookah"])
    IN  IF sess["custom_hookah"] > upper THEN sess["custom_hookah"] ELSE upper

NoEvent == [kind |-> "none", pack_foc |-> 0, hookah |-> 0, save_ok |-> FALSE]

\* Lines 505-534: the slider values become the custom allocation.
StoreCustomGifts(sess, ct, ev) ==
    LET pack_foc == SliderPackFoc(sess, ev)
        hookah == SliderHookah(sess, ct, ev)
    IN  Put(Put(Put(sess,
            "custom_pack_foc", pack_foc),
            "custom_hookah", hookah),
            "custom_gifts", Gifts(pack_foc, hookah))

\* The run of main() that st.rerun() starts: no widget event is pending.
Rerun(sess, qs, price_data, ct, tie) ==
    LET order_data == generate_order_summary(price_data, qs)
        b == calculate_budget_from_roi(order_data,
                 roi_options(eligible_tier(order_data)), tie)
    IN  IF ~(is_eligible(order_data) /\ is_eligible_for_gift(order_data))
        THEN [session |-> sess, quantities |-> qs, saved |-> <<>>]
        ELSE [session |-> StoreCustomGifts(
                              StoreRecommendation(sess, order_data, ct, b), ct, NoEvent),
              quantities |-> qs,
              saved |-> <<>>]

\* What a run of main() leaves: the calculation entries, the quantity
\* inputs, the save_order calls, the price table and the customer.
Page(r, price_data, ct, info) ==
    r @@ [price_data |-> price_data, customer_type |-> ct, customer_info |-> info]

\* st.rerun() after reset_all_calculations (lines 408-409, 480-484): main()
\* runs on the session state the reset left; the radio takes its index
\* from customer_type (lines 266-269).
AfterReset(state, tie) ==
    Page(Rerun(CalculationEntries(state), WidgetQuantities(state),
               state["price_data"], state["customer_type"], tie),
         state["price_data"], state["customer_type"],
         [customer_name |-> state["customer_name"],
          customer_address |-> state["customer_address"]])

\* save_order succeeded (lines 477-484, 612-619): the calculation is reset
\* and main() runs again.
AfterSave(state, tie, call) ==
    [AfterReset(reset_all_calculations(state), tie) EXCEPT !.saved = <<call>>]

\* "Apply Custom Allocation" with an allocation within the budget (lines
\* 543-561).
AfterApply(sess, qs, price_data, ct, tie, order_data, tier, b) ==
    LET custom_gifts == sess["custom_gifts"]
        adjusted_gifts == adjust_gifts_for_tier_roi(order_data, tier, custom_gifts, b)
        s3 == IF adjusted_gifts # custom_gifts
              THEN Put(Put(Put(sess,
                       "custom_gifts", adjusted_gifts),
                       "custom_pack_foc", adjusted_gifts["Pack FOC"]),
                       "custom_hookah", adjusted_gifts["Hookah"])
              ELSE sess
    IN  Rerun(Put(s3, "applied_custom_gifts", TRUE), qs, price_data, ct, tie)

\* One run of main() (lines 225-626) on the session left by the callbacks,
\* with the widget event ev: the entries, the quantity inputs and the
\* save_order calls it leaves.
main(sess, qs, price_data, ct, info, tie, ev) ==
    LET order_data == generate_order_summary(price_data, qs)
        tier == eligible_tier(order_data)
        b == calculate_budget_from_roi(order_data, roi_options(tier), tie)
        s1 == StoreRecommendation(sess, order_data, ct, b)
        s2 == StoreCustomGifts(s1, ct, ev)
        custom_gift_value ==
            calculate_gift_value("Pack FOC", s2["custom_gifts"]["Pack FOC"])
            + calculate_gift_value("Hookah", s2["custom_gifts"]["Hookah"])
    IN  IF ~(is_eligible(order_data) /\ is_eligible_for_gift(order_data))
        THEN Page([session |-> sess, quantities |-> qs, saved |-> <<>>],
                  price_data, ct, info)
        ELSE IF ev.kind = "reset"
        THEN AfterReset(reset_all_calculations(
                            SessionState(sess, qs, price_data, ct, info)), tie)
        ELSE IF ev.kind = "save_recommended" /\ ev.save_ok
        THEN AfterSave(SessionState(s1, qs, price_data, ct, info), tie,
                 SaveOrderCall(order_data, ct, tier, b, s1["original_gifts"]))
        ELSE IF ev.kind = "apply" /\ ~(custom_gift_value * 100 > b)
        THEN Page(AfterApply(s2, qs, price_data, ct, tie, order_data, tier, b),
                  price_data, ct, info)
        ELSE IF s2["applied_custom_gifts"] /\ ev.kind = "save_custom" /\ ev.save_ok
        THEN AfterSave(SessionState(s2, qs, price_data, ct, info), tie,
                 SaveOrderCall(order_data, ct, tier, b, s2["custom_gifts"]))
        ELSE Page([session |-> s2, quantities |-> qs, saved |-> <<>>],
                  price_data, ct, info)

\* The gift calculation section is on the page (line 375).
GiftSectionShown == is_eligible(order) /\ is_eligible_for_gift(order)

\* The state a run of main() leaves.
Run(sess, qs, price_data, ct, info, ev) ==
    \E r \in {main(sess, qs, price_data, ct, info, float_tie_up, ev)} :
        /\ session' = r.session
        /\ quantities' = r.quantities
        /\ saved' = r.saved
        /\ prices' = r.price_data
        /\ customer_type' = r.customer_type
        /\ customer_info' = r.customer_info
        /\ UNCHANGED <<float_tie_up, pc, budget, target_roi, gifts, actual_roi,
                       call_vars, iterations>>

\* The budget the page shows for the current inputs (line 402).
PageBudget ==
    calculate_budget_from_roi(order, roi_options(eligible_tier(order)), float_tie_up)

\* The page as first loaded: default prices, Retailer, no quantities.
AppInit ==
    /\ quantities = DefaultQuantities
    /\ prices = DEFAULT_PRICES
    /\ customer_type = RETAILER
    /\ customer_info = NoCustomerInfo
    /\ float_tie_up \in BOOLEAN
    /\ pc = "session"
    /\ budget = 0
    /\ target_roi = 0
    /\ gifts = Gifts(0, 0)
    /\ actual_roi = 0
    /\ session = NoSession
    /\ saved = <<>>
    /\ NoCall
    /\ iterations = 0

\* A quantity input is changed (lines 304-314): callback, then main().
ChangeQuantity ==
    /\ pc = "session"
    /\ \E qs \in QuantityChoices :
        /\ Cardinality({s \in Sizes : qs[s] # quantities[s]}) = 1
        /\ Run(reset_on_qty_change(session), qs, prices, customer_type, customer_info,
               NoEvent)

\* The customer type radio is changed (lines 271-282): callback, then main().
ChangeCustomerType ==
    /\ pc = "session"
    /\ \E ct \in CustomerType \ {customer_type} :
        Run(reset_on_customer_type_change(session), quantities, prices, ct,
            customer_info, NoEvent)

\* main.py, lines 143-191: a CSV upload or manual prices replace the price
\* table, then main() runs; no calculation entry is reset.
ChangePrices ==
    /\ pc = "session"
    /\ \E price_data \in PriceTables \ {prices} :
        Run(session, quantities, price_data, customer_type, customer_info, NoEvent)

\* The name and address the text inputs can hold.
CustomerInfoChoices ==
    {NoCustomerInfo, [customer_name |-> "Ann", customer_address |-> "1 Road"]}

\* The customer's name or address is edited (lines 240-246), then main()
\* runs; the text inputs have no callback.
ChangeCustomerInfo ==
    /\ pc = "session"
    /\ \E info \in CustomerInfoChoices \ {customer_info} :
        Run(session, quantities, prices, customer_type, info, NoEvent)

\* A slider is moved (lines 505-534).
MoveSlider ==
    /\ pc = "session"
    /\ GiftSectionShown
    /\ LET max_quantities ==
               get_max_gift_quantities(PageBudget, customer_type, order.total_value)
           max_pack == SliderMaxPackFoc(session, customer_type, PageBudget, order.total_value)
           max_hookah == SliderMaxHookah(session, customer_type, PageBudget, order.total_value)
       IN  \E p \in (SliderChoices(max_quantities["Pack FOC"]) \cup {session["custom_pack_foc"]})
                       \cap 0..max_pack,
              h \in 0..max_hookah :
               /\ <<p, h>> # <<session["custom_pack_foc"], session["custom_hookah"]>>
               /\ Run(session, quantities, prices, customer_type, customer_info,
                      [kind |-> "slider", pack_foc |-> p, hookah |-> h, save_ok |-> FALSE])

\* "Apply Custom Allocation" (lines 537-561).
ApplyCustomAllocation ==
    /\ pc = "session"
    /\ GiftSectionShown
    /\ Run(session, quantities, prices, customer_type, customer_info,
           [NoEvent EXCEPT !.kind = "apply"])

\* "Save Order" with the recommended gifts (lines 446-491); save_order may
\* raise, which leaves the page as it is.
SaveRecommendedOrder ==
    /\ pc = "session"
    /\ GiftSectionShown
    /\ \E ok \in BOOLEAN :
        Run(session, quantities, prices, customer_type, customer_info,
            [NoEvent EXCEPT !.kind = "save_recommended", !.save_ok = ok])

\* "Save Order to Database" under the applied custom allocation (lines 564-626).
SaveCustomOrder ==
    /\ pc = "session"
    /\ GiftSectionShown
    /\ session["applied_custom_gifts"]
    /\ \E ok \in BOOLEAN :
        Run(session, quantities, prices, customer_type, customer_info,
            [NoEvent EXCEPT !.kind = "save_custom", !.save_ok = ok])

\* "Reset Calculations" (lines 407-409).
ResetCalculations ==
    /\ pc = "session"
    /\ GiftSectionShown
    /\ Run(session, quantities, prices, customer_type, customer_info,
           [NoEvent EXCEPT !.kind = "reset"])

AppNext ==
    \/ ChangeQuantity
    \/ ChangeCustomerInfo
    \/ ChangeCustomerType
    \/ ChangePrices
    \/ MoveSlider
    \/ ApplyCustomAllocation
    \/ SaveRecommendedOrder
    \/ SaveCustomOrder
    \/ ResetCalculations

AppSpec == AppInit /\ [][AppNext]_vars

\* The allocator called directly, or through the page.
FullSpec == (Init \/ AppInit) /\ [][Next \/ AppNext]_vars

(***************************************************************************)
(* The classification of an order by main() (lines 316-366), taken alone.  *)
(***************************************************************************)
ClassifyInit ==
    /\ quantities \in ClassifyQuantities
    /\ prices = DEFAULT_PRICES
    /\ customer_type = RETAILER
    /\ customer_info = NoCustomerInfo
    /\ float_tie_up = FALSE
    /\ pc = "order"
    /\ budget = 0
    /\ target_roi = 0
    /\ gifts = Gifts(0, 0)
    /\ actual_roi = 0
    /\ session = NoSession
    /\ saved = <<>>
    /\ NoCall
    /\ iterations = 0

\* Lines 326-366: total_grams, is_eligible, eligible_tier, product_eligible.
Classify ==
    /\ pc = "order"
    /\ classification' = [is_eligible |-> is_eligible(order),
                          eligible_tier |-> eligible_tier(order),
                          product_eligible |-> is_eligible_for_gift(order)]
    /\ pc' = "classified"
    /\ UNCHANGED <<quantities, prices, customer_type, customer_info, float_tie_up, budget,
                   target_roi,
                   gifts, actual_roi, session, saved, tier_name, input_gifts,
                   iterations>>

ClassifySpec == ClassifyInit /\ [][Classify]_vars

(***************************************************************************)
(* adjust_gifts_for_tier_roi (app.py, lines 138-187) called directly, its  *)
(* loop taken one iteration at a time.                                     *)
(***************************************************************************)
\* The custom_gifts arguments: what the sliders can hold.
CustomGiftChoices == {Gifts(p, h) : p \in 0..MaxCustomPackFoc, h \in 0..2}

\* Mutant: the call does not test that a tier was given (a missing tier is
\* then looked up as any unknown one).
AdjustGiftsForTierRoi_NoTierTest ==
    /\ pc = "idle"
    /\ \E t \in TierArguments, custom_gifts \in CustomGiftChoices :
        LET b == calculate_budget_from_roi(order, roi_options(t), float_tie_up)
            current_roi == calculate_roi(order, custom_gifts, b)
        IN  /\ tier_name' = t
            /\ input_gifts' = custom_gifts
            /\ budget' = b
            /\ gifts' = custom_gifts
            /\ actual_roi' = current_roi
            /\ target_roi' = tier_roi(t)
            /\ pc' = IF current_roi <= tier_roi(t) THEN "adjusted" ELSE "adjust_while"
    /\ UNCHANGED <<quantities, prices, customer_type, customer_info, float_tie_up, session, saved,
                   classification, iterations>>

\* Lines 138-174: the call, up to the loop.
AdjustGiftsForTierRoi ==
    /\ pc = "idle"
    /\ \E t \in TierArguments, custom_gifts \in CustomGiftChoices :
        LET b == calculate_budget_from_roi(order, roi_options(t), float_tie_up)
            current_roi == calculate_roi(order, custom_gifts, b)
        IN  /\ tier_name' = t
            /\ input_gifts' = custom_gifts
            /\ budget' = b
            /\ gifts' = custom_gifts
            /\ IF t = ""
               THEN /\ pc' = "adjusted"
                    /\ UNCHANGED <<target_roi, actual_roi>>
               ELSE /\ actual_roi' = current_roi
                    /\ target_roi' = tier_roi(t)
                    /\ pc' = IF current_roi <= tier_roi(t)
                             THEN "adjusted" ELSE "adjust_while"
    /\ UNCHANGED <<quantities, prices, customer_type, customer_info, float_tie_up, session, saved,
                   classification, iterations>>

\* Mutant: Pack FOC is reduced without the test that some is left.
AdjustWhile_NoPositiveTest ==
    /\ pc = "adjust_while"
    /\ IF calculate_roi(order, gifts, budget) > target_roi
       THEN /\ gifts' = [gifts EXCEPT !["Pack FOC"] = @ - 1]
            /\ pc' = "adjust_while"
       ELSE /\ gifts' = gifts
            /\ pc' = "adjusted"
    /\ UNCHANGED <<quantities, prices, customer_type, customer_info, float_tie_up, budget,
                   target_roi, actual_roi, session, saved, call_vars, iterations>>

\* Mutant: the loop adds a Pack FOC where the code takes one off.
AdjustWhile_Increments ==
    /\ pc = "adjust_while"
    /\ IF calculate_roi(order, gifts, budget) > target_roi
       THEN IF gifts["Pack FOC"] > 0
            THEN /\ gifts' = [gifts EXCEPT !["Pack FOC"] = @ + 1]
                 /\ pc' = "adjust_while"
            ELSE IF gifts["Hookah"] > 0
                 THEN /\ gifts' = [gifts EXCEPT !["Hookah"] = @ - 1]
                      /\ pc' = "adjust_while"
                 ELSE /\ gifts' = gifts
                      /\ pc' = "adjusted"
       ELSE /\ gifts' = gifts
            /\ pc' = "adjusted"
    /\ UNCHANGED <<quantities, prices, customer_type, customer_info, float_tie_up, budget,
                   target_roi, actual_roi, session, saved, call_vars, iterations>>

\* Mutant: the loop stops as soon as no Pack FOC is left, hookahs untouched.
AdjustWhile_PackFocOnly ==
    /\ pc = "adjust_while"
    /\ IF calculate_roi(order, gifts, budget) > target_roi /\ gifts["Pack FOC"] > 0
       THEN /\ gifts' = [gifts EXCEPT !["Pack FOC"] = @ - 1]
            /\ pc' = "adjust_while"
       ELSE /\ gifts' = gifts
            /\ pc' = "adjusted"
    /\ UNCHANGED <<quantities, prices, customer_type, customer_info, float_tie_up, budget,
                   target_roi, actual_roi, session, saved, call_vars, iterations>>

\* Mutant: the loop reduces the caller's dictionary, no copy is made.
AdjustWhile_NoCopy ==
    /\ pc = "adjust_while"
    /\ IF calculate_roi(order, gifts, budget) > target_roi
       THEN IF gifts["Pack FOC"] > 0
            THEN /\ gifts' = [gifts EXCEPT !["Pack FOC"] = @ - 1]
                 /\ pc' = "adjust_while"
            ELSE IF gifts["Hookah"] > 0
                 THEN /\ gifts' = [gifts EXCEPT !["Hookah"] = @ - 1]
                      /\ pc' = "adjust_while"
                 ELSE /\ gifts' = gifts
                      /\ pc' = "adjusted"
       ELSE /\ gifts' = gifts
            /\ pc' = "adjusted"
    /\ input_gifts' = gifts'
    /\ UNCHANGED <<quantities, prices, customer_type, customer_info, float_tie_up, budget,
                   target_roi, actual_roi, session, saved, classification, tier_name,
                   iterations>>

\* Mutant: hookahs are taken off first, Pack FOC when none is left.
AdjustWhile_HookahFirst ==
    /\ pc = "adjust_while"
    /\ IF calculate_roi(order, gifts, budget) > target_roi
       THEN IF gifts["Hookah"] > 0
            THEN /\ gifts' = [gifts EXCEPT !["Hookah"] = @ - 1]
                 /\ pc' = "adjust_while"
            ELSE IF gifts["Pack FOC"] > 0
                 THEN /\ gifts' = [gifts EXCEPT !["Pack FOC"] = @ - 1]
                      /\ pc' = "adjust_while"
                 ELSE /\ gifts' = gifts
                      /\ pc' = "adjusted"
       ELSE /\ gifts' = gifts
            /\ pc' = "adjusted"
    /\ UNCHANGED <<quantities, prices, customer_type, customer_info, float_tie_up, budget,
                   target_roi, actual_roi, session, saved, call_vars, iterations>>

\* One evaluation of the while loop (lines 176-185): the loop test, then one
\* reduction or the break; the return of line 187 when the loop is left.
AdjustWhile ==
    /\ pc = "adjust_while"
    /\ IF calculate_roi(order, gifts, budget) > target_roi
       THEN IF gifts["Pack FOC"] > 0
            THEN /\ gifts' = [gifts EXCEPT !["Pack FOC"] = @ - 1]
                 /\ pc' = "adjust_while"
            ELSE IF gifts["Hookah"] > 0
                 THEN /\ gifts' = [gifts EXCEPT !["Hookah"] = @ - 1]
                      /\ pc' = "adjust_while"
                 ELSE /\ gifts' = gifts
                      /\ pc' = "adjusted"
       ELSE /\ gifts' = gifts
            /\ pc' = "adjusted"
    /\ UNCHANGED <<quantities, prices, customer_type, customer_info, float_tie_up, budget,
                   target_roi, actual_roi, session, saved, call_vars, iterations>>

AdjustNext == AdjustGiftsForTierRoi \/ AdjustWhile

\* The three functions called directly on an order.
CallSpec == Init /\ [][Next \/ AdjustNext]_vars

(***************************************************************************)
(* Shorthands of the properties.                                           *)
(***************************************************************************)
\* Total gift value of an allocation, in cents.
GiftValueCents(gs) ==
    100 * (calculate_gift_value("Pack FOC", gs["Pack FOC"])
           + calculate_gift_value("Hookah", gs["Hookah"]))

MaxQuantities == get_max_gift_quantities(budget, customer_type, order.total_value)

(***************************************************************************)
(* C1: the refinement loop of optimize_budget terminates for every order,  *)
(* customer category and target ROI: a call that entered the loop reaches  *)
(* its return and does not cycle between allocations.                      *)
(***************************************************************************)
C1_LoopTerminates == (pc = "while") ~> (pc = "return")

(***************************************************************************)
(* C2: whenever optimize_budget returns, the realized ROI is within 0.1 of *)
(* the target, or both quantities are 0, or Pack FOC is at its maximum for *)
(* the budget.                                                             *)
(***************************************************************************)
C2_ReturnWithinToleranceOrSaturated ==
    pc = "return" =>
        \/ Abs(calculate_roi(order, gifts, budget) - target_roi) <= 10
        \/ gifts["Pack FOC"] = 0 /\ gifts["Hookah"] = 0
        \/ gifts["Pack FOC"] = MaxQuantities["Pack FOC"]

\* The loop was left by its break at the Pack FOC maximum, outside tolerance.
C2_Witness ==
    /\ pc = "return"
    /\ Abs(actual_roi - target_roi) > 10
    /\ gifts["Pack FOC"] > 0
    /\ gifts["Pack FOC"] = MaxQuantities["Pack FOC"]

(***************************************************************************)
(* C3: the allocation returned by recommend_gift exceeds the maximum       *)
(* quantities of its budget for neither gift, for all budgets including    *)
(* zero and negative ones.                                                 *)
(***************************************************************************)
C3_WithinMaxQuantities ==
    pc = "recommended" =>
        /\ gifts["Pack FOC"] <= MaxQuantities["Pack FOC"]
        /\ gifts["Hookah"] <= MaxQuantities["Hookah"]

\* C3 as amended: the same for every budget above -38 dollars (from -38
\* down the maximum of Pack FOC is negative while the allocation is 0).
C3_WithinMaxQuantitiesAboveMinus38 ==
    (pc = "recommended" /\ budget > -3800) =>
        /\ gifts["Pack FOC"] <= MaxQuantities["Pack FOC"]
        /\ gifts["Hookah"] <= MaxQuantities["Hookah"]

\* Two hookahs were allocated, which is all the budget allows, with a fill.
C3_Witness ==
    /\ pc = "recommended"
    /\ gifts["Hookah"] = 2
    /\ MaxQuantities["Hookah"] = 2
    /\ gifts["Pack FOC"] > 0

(***************************************************************************)
(* C4: for every budget <= 0 recommend_gift returns no Pack FOC and no     *)
(* Hookah, for every order and customer category.                          *)
(***************************************************************************)
C4_NothingForNonPositiveBudget ==
    (pc = "recommended" /\ budget <= 0) => gifts = Gifts(0, 0)

\* A negative budget for a Tobacco Shop order above 100 kg.
C4_Witness ==
    /\ pc = "recommended"
    /\ budget < -3800
    /\ customer_type = TOBACCO_SHOP
    /\ total_order_weight_g(order) > 100000

(***************************************************************************)
(* C5: for every budget >= 0 the allocation returned by recommend_gift is  *)
(* worth at most the budget: 38 * Pack FOC + 400 * Hookah <= budget.       *)
(***************************************************************************)
C5_RecommendationWithinBudget ==
    (pc = "recommended" /\ budget >= 0) => GiftValueCents(gifts) <= budget

\* Hookahs were pre-allocated and the rest was filled with Pack FOC.
C5_Witness ==
    /\ pc = "recommended"
    /\ gifts["Hookah"] >= 1
    /\ gifts["Pack FOC"] >= 1
    /\ budget - GiftValueCents(gifts) < 3800

(***************************************************************************)
(* C6: the allocation returned by optimize_budget is worth at most the     *)
(* budget derived from the target ROI, also when hookahs were allocated.   *)
(***************************************************************************)
C6_OptimizedWithinBudget ==
    pc = "return" => GiftValueCents(gifts) <= budget

(***************************************************************************)
(* C7: recommend_gift is monotone in the budget: for a fixed order and     *)
(* customer category a smaller budget yields no more Pack FOC and no more  *)
(* Hookah than a larger one.                                               *)
(***************************************************************************)
C7_MonotoneInBudget ==
    pc = "recommended" =>
        \A b1 \in Budgets :
            b1 <= budget =>
                LET g1 == recommend_gift(order, customer_type, b1)
                IN  /\ g1["Pack FOC"] <= gifts["Pack FOC"]
                    /\ g1["Hookah"] <= gifts["Hookah"]

\* C7 as amended: the Hookah quantity is monotone in the budget, and the
\* Pack FOC quantity is monotone between two budgets that are given the
\* same Hookah quantity.
C7_MonotoneWithinHookahBranch ==
    pc = "recommended" =>
        \A b1 \in Budgets :
            b1 <= budget =>
                LET g1 == recommend_gift(order, customer_type, b1)
                IN  /\ g1["Hookah"] <= gifts["Hookah"]
                    /\ g1["Hookah"] = gifts["Hookah"]
                           => g1["Pack FOC"] <= gifts["Pack FOC"]

\* A smaller budget with the same hookah and strictly fewer Pack FOC, and a
\* still smaller one without the hookah and with more Pack FOC.
C7_Witness ==
    /\ pc = "recommended"
    /\ gifts["Hookah"] = 1
    /\ \E b1 \in Budgets :
          /\ b1 < budget
          /\ recommend_gift(order, customer_type, b1)["Hookah"] = 1
          /\ recommend_gift(order, customer_type, b1)["Pack FOC"] < gifts["Pack FOC"]
    /\ \E b0 \in Budgets :
          /\ b0 < budget
          /\ recommend_gift(order, customer_type, b0)["Hookah"] = 0
          /\ recommend_gift(order, customer_type, b0)["Pack FOC"] > gifts["Pack FOC"]

\* The Hookah quantities the session holds: the recommended and the custom
\* allocation and the Hookah slider's value.
SessionHookahs ==
    {session[k]["Hookah"] : k \in DOMAIN session \cap {"original_gifts", "custom_gifts"}}
    \cup {session[k] : k \in DOMAIN session \cap {"custom_hookah"}}

\* The Hookah quantities of the save_order calls made for customer type ct.
SavedHookahs(ct) ==
    {saved[i].gifts["Hookah"] : i \in {j \in DOMAIN saved : saved[j].customer_type = ct}}

(***************************************************************************)
(* C8: a Retailer never receives a Hookah: the Hookah quantity is 0 in the *)
(* result of recommend_gift, in every state of the optimize_budget loop    *)
(* and its result, and in every allocation the page holds or saves,        *)
(* the custom allocation built from the sliders included.                  *)
(***************************************************************************)
C8_RetailerNeverGetsHookah ==
    customer_type = RETAILER =>
        /\ gifts["Hookah"] = 0
        /\ \A h \in SessionHookahs \cup SavedHookahs(RETAILER) : h = 0

\* A Retailer's order above 100 kg with a budget that would pay two hookahs,
\* whose custom allocation was changed on the slider and applied.
C8_Witness ==
    /\ pc = "session"
    /\ customer_type = RETAILER
    /\ GiftSectionShown
    /\ total_order_weight_g(order) > 100000
    /\ PageBudget >= 80000
    /\ session["applied_custom_gifts"]
    /\ session["custom_gifts"]["Pack FOC"] > 0
    /\ session["custom_gifts"] # session["original_gifts"]

(***************************************************************************)
(* C9: the Hookah quantity never exceeds 2 per order: in the result of     *)
(* recommend_gift, after every step of optimize_budget, and in every       *)
(* allocation the page holds or saves, the custom allocation accepted from *)
(* the sliders included, whatever the budget.                              *)
(***************************************************************************)
C9_AtMostTwoHookahs ==
    /\ gifts["Hookah"] <= 2
    /\ \A h \in SessionHookahs \cup SavedHookahs(customer_type) : h <= 2

\* A Tobacco Shop whose budget pays more than two hookahs holds a custom
\* allocation of two, set on the sliders.
C9_Witness ==
    /\ pc = "session"
    /\ customer_type = TOBACCO_SHOP
    /\ GiftSectionShown
    /\ get_max_gift_quantities(PageBudget, customer_type, order.total_value)["Hookah"] > 2
    /\ session["custom_gifts"]["Hookah"] = 2
    /\ session["custom_gifts"] # session["original_gifts"]

(***************************************************************************)
(* C10: for a Tobacco Shop the hookah pre-allocation is first match wins:  *)
(* 2 above 100 kg with a budget >= 800, else 1 above 50 kg with a budget   *)
(* >= 400, else 0, the weight bounds being strict; Pack FOC is filled from *)
(* the budget less 400 per hookah.                                         *)
(***************************************************************************)
C10_HookahPreAllocation ==
    (pc = "recommended" /\ customer_type = TOBACCO_SHOP) =>
        LET w == total_order_weight_g(order)
            h == IF w > 100000 /\ budget >= 80000 THEN 2
                 ELSE IF w > 50000 /\ budget >= 40000 THEN 1
                 ELSE 0
            rest == budget - 40000 * h
        IN  /\ gifts["Hookah"] = h
            /\ gifts["Pack FOC"] = IF rest > 0 THEN rest \div 3800 ELSE 0

\* Exactly 100 kg with a budget that would pay two hookahs: one is given.
C10_Witness ==
    /\ pc = "recommended"
    /\ customer_type = TOBACCO_SHOP
    /\ total_order_weight_g(order) = 100000
    /\ budget >= 80000
    /\ gifts["Hookah"] = 1
    /\ gifts["Pack FOC"] > 0

(***************************************************************************)
(* C11: the classification is this function of the quantities, with       *)
(* weight = 50*q50g + 250*q250g + 1000*q1kg: eligible iff weight >= 6000,  *)
(* and when eligible the tier is Platinum from 246050 g with a 1kg pack,   *)
(* else Diamond from 126050 g with a 1kg pack, else Gold from 66050 g with *)
(* a 1kg pack, else Silver; all bounds inclusive.                          *)
(***************************************************************************)
C11_Classification ==
    pc = "classified" =>
        LET weight == 50 * quantities["50g"] + 250 * quantities["250g"]
                      + 1000 * quantities["1kg"]
            with_1kg == quantities["1kg"] >= 1
        IN  /\ classification.is_eligible = (weight >= 6000)
            /\ classification.is_eligible =>
                   classification.eligible_tier =
                       IF weight >= 246050 /\ with_1kg THEN "Platinum"
                       ELSE IF weight >= 126050 /\ with_1kg THEN "Diamond"
                       ELSE IF weight >= 66050 /\ with_1kg THEN "Gold"
                       ELSE "Silver"

\* An order of Platinum weight without a 1kg pack was classified Silver.
C11_Witness ==
    /\ pc = "classified"
    /\ quantities["1kg"] = 0
    /\ total_grams(order) >= 246050
    /\ classification.is_eligible
    /\ classification.eligible_tier = "Silver"

\* The orders the product rule rejects: fewer than 10 packs of 50g, fewer
\* than 3 of 250g and fewer than 2 of 1kg.
ProductIneligibleOrders ==
    {qs \in SmallOrders : qs["50g"] < 10 /\ qs["250g"] < 3 /\ qs["1kg"] < 2}

(***************************************************************************)
(* C12: the two eligibility gates are independent: some order with         *)
(* non-negative quantities weighs at least 6000 g and yet has fewer than   *)
(* 10 packs of 50g, fewer than 3 of 250g and fewer than 2 of 1kg.          *)
(***************************************************************************)
C12_GatesIndependent ==
    \E qs \in ProductIneligibleOrders :
        LET order_data == generate_order_summary(prices, qs)
        IN  /\ total_grams(order_data) >= 6000
            /\ ~is_eligible_for_gift(order_data)

\* C12 as amended: every order the weight gate admits passes the product
\* rule (an order the product rule rejects weighs at most 1950 g).
C12_WeightGateImpliesProductGate ==
    pc = "classified" =>
        /\ classification.is_eligible => classification.product_eligible
        /\ ~classification.product_eligible => total_grams(order) <= 1950

\* An order of exactly 6000 g, admitted by the 1kg rule alone.
C12_Witness ==
    /\ pc = "classified"
    /\ total_grams(order) = 6000
    /\ quantities["50g"] = 0
    /\ quantities["250g"] = 0
    /\ classification.is_eligible
    /\ classification.product_eligible

\* The ceiling ROI of a tier, in hundredths of a percent.
CeilingRoi(t) ==
    CASE t = "Silver" -> 1300
      [] t = "Gold" -> 1450
      [] t = "Diamond" -> 1600
      [] t = "Platinum" -> 1800

\* The decrement sequence from an allocation: Pack FOC down to 0, then
\* Hookah down to 0.  InSequence: g is on it; EarlierInSequence: the
\* allocations on it before g.
InSequence(from, g) ==
    \/ g["Hookah"] = from["Hookah"] /\ g["Pack FOC"] \in 0..from["Pack FOC"]
    \/ g["Pack FOC"] = 0 /\ g["Hookah"] \in 0..(from["Hookah"] - 1)

EarlierInSequence(from, g) ==
    IF g["Hookah"] = from["Hookah"]
    THEN {Gifts(k, from["Hookah"]) : k \in (g["Pack FOC"] + 1)..from["Pack FOC"]}
    ELSE {Gifts(k, from["Hookah"]) : k \in 0..from["Pack FOC"]}
         \cup {Gifts(0, j) : j \in (g["Hookah"] + 1)..(from["Hookah"] - 1)}

(***************************************************************************)
(* C13: calculate_roi returns 0 for every allocation when the order's      *)
(* total_value is 0, and optimize_budget and adjust_gifts_for_tier_roi     *)
(* complete on a zero-value order: the tier adjustment returns without     *)
(* entering its loop, and the first evaluation of the optimize_budget loop *)
(* leaves it, by its test or by a break.                                   *)
(***************************************************************************)
C13_ZeroValueOrder ==
    order.total_value = 0 =>
        /\ \A g \in CustomGiftChoices \cup {gifts} : calculate_roi(order, g, budget) = 0
        /\ actual_roi = 0
        /\ pc # "adjust_while"
        /\ pc = "while" =>
               \/ ~(Abs(actual_roi - target_roi) > 10)
               \/ actual_roi > target_roi /\ gifts = Gifts(0, 0)
               \/ /\ actual_roi <= target_roi
                  /\ gifts["Pack FOC"] >= MaxQuantities["Pack FOC"]

\* optimize_budget returned for a zero-value order and a positive target.
C13_Witness ==
    /\ pc = "return"
    /\ order.total_value = 0
    /\ quantities["1kg"] > 0
    /\ target_roi > 0
    /\ actual_roi = 0

(***************************************************************************)
(* C14: for every order, tier and hand-edited allocation, the allocation   *)
(* adjust_gifts_for_tier_roi returns has a ROI of at most the tier's       *)
(* ceiling (Silver 13, Gold 14.5, Diamond 16, Platinum 18), and it is the  *)
(* first allocation of the decrement sequence (Pack FOC down to 0, then    *)
(* Hookah down to 0) with such a ROI.                                      *)
(***************************************************************************)
C14_FirstAllocationUnderCeiling ==
    (pc = "adjusted" /\ tier_name \in Tiers) =>
        /\ calculate_roi(order, gifts, budget) <= CeilingRoi(tier_name)
        /\ InSequence(input_gifts, gifts)
        /\ \A e \in EarlierInSequence(input_gifts, gifts) :
               calculate_roi(order, e, budget) > CeilingRoi(tier_name)

\* All Pack FOC and then a hookah were taken off.
C14_Witness ==
    /\ pc = "adjusted"
    /\ tier_name \in Tiers
    /\ input_gifts["Pack FOC"] > 0
    /\ gifts["Hookah"] < input_gifts["Hookah"]

(***************************************************************************)
(* C15: adjust_gifts_for_tier_roi never increases a quantity: the returned *)
(* Pack FOC and Hookah are at most the input's (and so is every            *)
(* allocation the loop passes through).                                    *)
(***************************************************************************)
C15_AdjustNeverIncreases ==
    pc \in {"adjust_while", "adjusted"} =>
        /\ gifts["Pack FOC"] <= input_gifts["Pack FOC"]
        /\ gifts["Hookah"] <= input_gifts["Hookah"]

\* Some but not all Pack FOC were taken off, the hookahs kept.
C15_Witness ==
    /\ pc = "adjusted"
    /\ gifts["Pack FOC"] > 0
    /\ gifts["Pack FOC"] < input_gifts["Pack FOC"]
    /\ gifts["Hookah"] = input_gifts["Hookah"]

(***************************************************************************)
(* C16: when the ROI of the hand-edited allocation is already at most the  *)
(* tier's ceiling, or no tier is given, adjust_gifts_for_tier_roi returns  *)
(* the allocation with both quantities unchanged.                          *)
(***************************************************************************)
C16_UnchangedUnderCeiling ==
    (/\ pc \in {"adjust_while", "adjusted"}
     /\ \/ tier_name = ""
        \/ calculate_roi(order, input_gifts, budget) <= CeilingRoi(tier_name)) =>
        /\ pc = "adjusted"
        /\ gifts = input_gifts

\* No tier was given and the allocation is above every tier's ceiling.
C16_Witness ==
    /\ pc = "adjusted"
    /\ tier_name = ""
    /\ calculate_roi(order, input_gifts, budget) > 1800
    /\ gifts = input_gifts

(***************************************************************************)
(* C19: gift quantities are never negative: Pack FOC >= 0 and Hookah >= 0  *)
(* in every state reached by recommend_gift, by the steps of               *)
(* optimize_budget and by the reductions of adjust_gifts_for_tier_roi.     *)
(***************************************************************************)
C19_NeverNegative ==
    /\ gifts["Pack FOC"] >= 0
    /\ gifts["Hookah"] >= 0

\* The tier adjustment took a positive-value order's allocation down to
\* nothing.
C19_Witness ==
    /\ pc = "adjusted"
    /\ order.total_value > 0
    /\ input_gifts["Pack FOC"] > 0
    /\ input_gifts["Hookah"] > 0
    /\ gifts = Gifts(0, 0)

(***************************************************************************)
(* C17: worked example.  The order of 100 packs of 1kg at $638.83 of a     *)
(* Tobacco Shop is Gold (target ROI 7%), its budget is 4471.81,            *)
(* recommend_gift returns {Pack FOC: 107, Hookah: 1} with ROI 6.99, and    *)
(* optimize_budget returns the same allocation without a refinement step.  *)
(***************************************************************************)
C17_WorkedExample ==
    (/\ quantities = Order3(0, 0, 100)
     /\ prices["1kg"] = 63883
     /\ customer_type = TOBACCO_SHOP) =>
        /\ is_eligible(order)
        /\ eligible_tier(order) = "Gold"
        /\ roi_options(eligible_tier(order)) = 700
        /\ calculate_budget_from_roi(order, 700, float_tie_up) = 447181
        /\ (pc = "recommended" /\ budget = 447181) =>
               /\ gifts = Gifts(107, 1)
               /\ calculate_roi(order, gifts, budget) = 699
        /\ (pc \in {"while", "return"} /\ target_roi = 700) =>
               /\ budget = 447181
               /\ gifts = Gifts(107, 1)
               /\ actual_roi = 699

\* optimize_budget returned for the worked order and the Gold target.
C17_Witness ==
    /\ quantities = Order3(0, 0, 100)
    /\ prices["1kg"] = 63883
    /\ customer_type = TOBACCO_SHOP
    /\ pc = "return"
    /\ target_roi = 700
    /\ gifts = Gifts(107, 1)

\* The tier targets, hundredths of a percent.
TierTargets == {500, 700, 900, 1300}

\* The ROI of one Pack FOC on the order, hundredths of a percent, rounded up.
PackFocRoi == (3800 * 10000 + order.total_value - 1) \div order.total_value

(***************************************************************************)
(* C18: round trip of budget derivation and allocation: for every tier     *)
(* target T in {5, 7, 9, 13}, every category and every order of positive   *)
(* value whose budget affords at least one Pack FOC, the ROI of            *)
(* recommend_gift's allocation for the derived budget is within 0.1 of T.  *)
(***************************************************************************)
C18_RoundTrip ==
    pc = "recommended" =>
        \A T \in TierTargets :
            (/\ order.total_value > 0
             /\ budget = calculate_budget_from_roi(order, T, float_tie_up)
             /\ budget >= 3800) =>
                Abs(calculate_roi(order, gifts, budget) - T) <= 10

\* C18 as amended: the ROI exceeds T by no more than its rounding (0.01) and
\* falls short of T by no more than the ROI of one Pack FOC (and the
\* rounding); it is within 0.1 of T for orders worth 38,000 or more.
C18_RoundTripWithinOnePackFoc ==
    pc = "recommended" =>
        \A T \in TierTargets :
            (/\ order.total_value > 0
             /\ budget = calculate_budget_from_roi(order, T, float_tie_up)
             /\ budget >= 3800) =>
                LET roi == calculate_roi(order, gifts, budget)
                IN  /\ roi <= T + 1
                    /\ T - roi <= PackFocRoi + 1
                    /\ order.total_value >= 3800000 => Abs(roi - T) <= 10

\* An order worth more than 38,000 with a hookah, allocated for its budget
\* of 13%, short of the target.
C18_Witness ==
    /\ pc = "recommended"
    /\ order.total_value >= 3800000
    /\ budget = calculate_budget_from_roi(order, 1300, float_tie_up)
    /\ gifts["Hookah"] >= 1
    /\ calculate_roi(order, gifts, budget) < 1300

(***************************************************************************)
(* C20: get_max_gift_quantities(budget, category) is                       *)
(* {Pack FOC: floor(budget/38), Hookah: floor(budget/400) for a Tobacco    *)
(* Shop, else 0} for every budget, zero and negative budgets included.     *)
(***************************************************************************)
C20_MaxIsFloor ==
    pc = "recommended" =>
        MaxQuantities = Gifts(budget \div 3800,
                              IF customer_type = TOBACCO_SHOP
                              THEN budget \div 40000 ELSE 0)

\* C20 as amended: the quotients are truncated toward zero, which is the
\* floor for a budget >= 0 and the ceiling for a negative one.
C20_MaxIsTruncation ==
    pc = "recommended" =>
        LET pack_foc == IF budget >= 0 THEN budget \div 3800
                        ELSE 0 - ((0 - budget) \div 3800)
            hookah == IF budget >= 0 THEN budget \div 40000
                      ELSE 0 - ((0 - budget) \div 40000)
        IN  MaxQuantities = Gifts(pack_foc,
                                  IF customer_type = TOBACCO_SHOP THEN hookah ELSE 0)

\* A negative budget of a Tobacco Shop that is no multiple of 38: the
\* maximum of Pack FOC is one above the floor.
C20_Witness ==
    /\ pc = "recommended"
    /\ customer_type = TOBACCO_SHOP
    /\ budget < -3800
    /\ budget % 3800 # 0
    /\ MaxQuantities["Pack FOC"] = (budget \div 3800) + 1

(***************************************************************************)
(* C21: the number of iterations of the optimize_budget loop is bounded:   *)
(* the adjustments made by one call never exceed budget / 38 (and so stay  *)
(* below a cap of a few hundred).                                          *)
(***************************************************************************)
C21_IterationsWithinBudgetOver38 ==
    pc \in {"while", "return"} => iterations * 3800 <= budget

\* The loop of optimize_budget (lines 96-120) as a function of the
\* allocation it starts from.
RECURSIVE RefineToRoi(_, _, _, _, _)
RefineToRoi(order_data, ct, b, target, gs) ==
    LET roi == calculate_roi(order_data, gs, b)
        max_quantities == get_max_gift_quantities(b, ct, order_data.total_value)
    IN  IF ~OutsideTolerance(roi, target) THEN gs
        ELSE IF roi > target
        THEN IF gs["Pack FOC"] > 0
             THEN RefineToRoi(order_data, ct, b, target, [gs EXCEPT !["Pack FOC"] = @ - 1])
             ELSE IF gs["Hookah"] > 0
                  THEN RefineToRoi(order_data, ct, b, target,
                                   [gs EXCEPT !["Hookah"] = @ - 1])
                  ELSE gs
        ELSE IF gs["Pack FOC"] < max_quantities["Pack FOC"]
             THEN RefineToRoi(order_data, ct, b, target, [gs EXCEPT !["Pack FOC"] = @ + 1])
             ELSE gs

(***************************************************************************)
(* C22: the core operations are pure.  No step of recommend_gift,          *)
(* optimize_budget or adjust_gifts_for_tier_roi changes the order summary, *)
(* the customer type or the allocation the caller passed in, and what each *)
(* returns is a function of its arguments alone: the same arguments give   *)
(* the same allocation.                                                    *)
(***************************************************************************)
C22_PureOperations ==
    [][/\ quantities' = quantities
       /\ prices' = prices
       /\ customer_type' = customer_type
       /\ pc \in {"adjust_while", "adjusted"} =>
              /\ input_gifts' = input_gifts
              /\ tier_name' = tier_name
       /\ pc' = "recommended" =>
              gifts' = recommend_gift(order, customer_type, budget')
       /\ pc' = "return" =>
              gifts' = RefineToRoi(order, customer_type, budget', target_roi',
                           recommend_gift(order, customer_type,
                               calculate_budget_from_roi(order, target_roi', float_tie_up)))
       /\ pc' = "adjusted" =>
              gifts' = adjust_gifts_for_tier_roi(order, tier_name', input_gifts', budget')
      ]_vars

\* The tier adjustment returned less than it was given: the caller's
\* allocation still differs from the returned one.
C22_Witness ==
    /\ pc = "adjusted"
    /\ tier_name \in Tiers
    /\ gifts # input_gifts
    /\ gifts = adjust_gifts_for_tier_roi(order, tier_name, input_gifts, budget)

(***************************************************************************)
(* C23: ordering of removals.  In the loop of optimize_budget and in the   *)
(* loop of adjust_gifts_for_tier_roi a Hookah is taken off only in a step  *)
(* that starts with Pack FOC = 0, and it is exactly one; while Pack FOC is *)
(* positive a reducing step takes off exactly one Pack FOC and leaves      *)
(* Hookah as it is.                                                        *)
(***************************************************************************)
C23_PackFocBeforeHookah ==
    [][(pc = "while" \/ pc = "adjust_while") =>
          /\ gifts'["Hookah"] # gifts["Hookah"] =>
                 /\ gifts["Pack FOC"] = 0
                 /\ gifts' = [gifts EXCEPT !["Hookah"] = @ - 1]
          /\ (gifts["Pack FOC"] > 0 /\ gifts'["Pack FOC"] < gifts["Pack FOC"]) =>
                 gifts' = [gifts EXCEPT !["Pack FOC"] = @ - 1]
      ]_vars

\* In the tier adjustment, all Pack FOC are gone and one of two hookahs was
\* taken off.
C23_Witness ==
    /\ pc = "adjust_while"
    /\ input_gifts["Pack FOC"] > 0
    /\ input_gifts["Hookah"] = 2
    /\ gifts = Gifts(0, 1)

(***************************************************************************)
(* C24: optimize_budget never increases the Hookah count: in every state   *)
(* of its loop and in what it returns, Hookah is at most the quantity      *)
(* recommend_gift returned for the derived budget, and a step that         *)
(* increases a quantity adds exactly one Pack FOC and nothing else.        *)
(***************************************************************************)
C24_HookahNeverIncreased ==
    [][/\ (pc' = "while" \/ pc' = "return") =>
              gifts'["Hookah"] <= recommend_gift(order, customer_type, budget')["Hookah"]
       /\ pc = "while" =>
              /\ gifts'["Hookah"] <= gifts["Hookah"]
              /\ gifts'["Pack FOC"] > gifts["Pack FOC"] =>
                     gifts' = [gifts EXCEPT !["Pack FOC"] = @ + 1]
      ]_vars

\* The loop added Pack FOC to an allocation with a hookah.
C24_Witness ==
    /\ pc = "while"
    /\ iterations >= 1
    /\ gifts["Hookah"] >= 1
    /\ gifts["Hookah"] = recommend_gift(order, customer_type, budget)["Hookah"]
    /\ gifts["Pack FOC"] > recommend_gift(order, customer_type, budget)["Pack FOC"]

(***************************************************************************)
(* C25: after a change of an order quantity or of the customer type (a     *)
(* step of the page on which a quantity input or the customer type         *)
(* differs) no gift allocation computed before survives.  When the page    *)
(* that follows shows no gift section the session holds no recommendation, *)
(* custom allocation, slider value or applied flag; when it shows one, the *)
(* recommendation, the custom allocation and the sliders are what          *)
(* recommend_gift returns for the new order, customer type and budget, and *)
(* the applied flag is off.                                                *)
(***************************************************************************)
C25_RecomputedAfterInputChange ==
    [][(pc = "session"
        /\ (quantities' # quantities \/ customer_type' # customer_type)) =>
          LET order_data == generate_order_summary(prices', quantities')
              b == calculate_budget_from_roi(order_data,
                       roi_options(eligible_tier(order_data)), float_tie_up)
              recommended_gifts == recommend_gift(order_data, customer_type', b)
          IN  IF is_eligible(order_data) /\ is_eligible_for_gift(order_data)
              THEN /\ session'["original_gifts"] = recommended_gifts
                   /\ session'["custom_gifts"] = recommended_gifts
                   /\ session'["custom_pack_foc"] = recommended_gifts["Pack FOC"]
                   /\ session'["custom_hookah"] = recommended_gifts["Hookah"]
                   /\ session'["applied_custom_gifts"] = FALSE
              ELSE DOMAIN session' \cap custom_gift_keys = {}
      ]_vars

\* A Tobacco Shop's page with a fresh recommendation that holds a hookah:
\* the customer type and a quantity were both changed to get here.
C25_Witness ==
    /\ pc = "session"
    /\ customer_type = TOBACCO_SHOP
    /\ GiftSectionShown
    /\ session["original_gifts"] = recommend_gift(order, customer_type, PageBudget)
    /\ session["original_gifts"]["Hookah"] = 1
    /\ session["custom_gifts"] = session["original_gifts"]
    /\ ~session["applied_custom_gifts"]

(***************************************************************************)
(* C26: the page computes, stores and saves gifts only for orders that     *)
(* pass both gates.  Whenever the session holds a recommendation, a custom *)
(* allocation, a slider value or the applied flag, the order on the page   *)
(* weighs at least 6000 g and satisfies the product rule; every order      *)
(* handed to save_order does too.                                          *)
(***************************************************************************)
C26_OnlyForEligibleOrders ==
    pc = "session" =>
        /\ DOMAIN session \cap custom_gift_keys # {} =>
               /\ total_grams(order) >= 6000
               /\ is_eligible_for_gift(order)
        /\ \A i \in DOMAIN saved :
               /\ saved[i].total_weight_g >= 6000
               /\ total_grams(saved[i]) = saved[i].total_weight_g
               /\ is_eligible_for_gift(saved[i])

\* An order of at least 6000 g that satisfies the product rule was saved
\* with its gifts.
C26_Witness ==
    /\ pc = "session"
    /\ saved # <<>>
    /\ saved[1].total_weight_g >= 6000
    /\ is_eligible_for_gift(saved[1])
    /\ saved[1].gifts["Pack FOC"] > 0

(***************************************************************************)
(* C27: every order saved through "Save Order" with the recommended gifts  *)
(* is consistent in itself: the saved gifts are what recommend_gift        *)
(* returns for the order, the customer type and the budget saved in the    *)
(* same record, whatever happened on the page before, a change of the      *)
(* price table included.                                                   *)
(***************************************************************************)
C27_SavedRecommendationConsistent ==
    [][(SaveRecommendedOrder /\ saved' # <<>>) =>
          saved'[1].gifts = recommend_gift(
              [quantities |-> saved'[1].quantities,
               prices |-> saved'[1].prices,
               total_value |-> saved'[1].total_order_value],
              saved'[1].customer_type, saved'[1].budget)
      ]_vars

(***************************************************************************)
(* C28: a custom allocation that the page shows as applied, and so offers  *)
(* to "Save Order to Database", is within the budget: 38 * Pack FOC +      *)
(* 400 * Hookah <= budget, after any slider moves and "Apply Custom        *)
(* Allocation" clicks on a page with the default price table.              *)
(***************************************************************************)
C28_AppliedWithinBudget ==
    (/\ pc = "session"
     /\ prices = DEFAULT_PRICES
     /\ "applied_custom_gifts" \in DOMAIN session
     /\ session["applied_custom_gifts"])
        => GiftValueCents(session["custom_gifts"]) <= PageBudget

(***************************************************************************)
(* C29: the budget comes from the tier's target ROI (5 / 7 / 9 / 13) and   *)
(* the tier adjustment compares with the same tier's larger limit (13 /    *)
(* 14.5 / 16 / 18), so an allocation whose value is at most the budget     *)
(* derived for the tier is returned by adjust_gifts_for_tier_roi as it was *)
(* given, without a reducing step: the adjustment never alters an          *)
(* allocation that passes the budget test of "Apply Custom Allocation".    *)
(***************************************************************************)
C29_WithinBudgetUnchanged ==
    (/\ pc \in {"adjust_while", "adjusted"}
     /\ budget = calculate_budget_from_roi(order, roi_options(tier_name), float_tie_up)
     /\ GiftValueCents(input_gifts) <= budget)
        => /\ pc = "adjusted"
           /\ gifts = input_gifts
           /\ gifts = adjust_gifts_for_tier_roi(order, tier_name, input_gifts, budget)

\* A Platinum call with a hookah and Pack FOC worth no more than the
\* budget of 13 %, returned as given.
C29_Witness ==
    /\ pc = "adjusted"
    /\ tier_name = "Platinum"
    /\ input_gifts["Hookah"] >= 1
    /\ input_gifts["Pack FOC"] >= 1
    /\ GiftValueCents(input_gifts) <= budget
    /\ budget = calculate_budget_from_roi(order, 1300, float_tie_up)
    /\ gifts = input_gifts

(***************************************************************************)
(* C30: reset_all_calculations, run by "Reset Calculations" and after each *)
(* successful save, removes every calculation entry (the recommendation,   *)
(* the custom allocation, the slider values, the applied flag) and leaves  *)
(* the price table and the customer's name, address and type as they were  *)
(* before the call; the page that follows shows them unchanged and holds   *)
(* no calculation entry.  The steps taken are those that save an order or  *)
(* clear the quantity inputs of a page with a calculation: every reset is  *)
(* one.                                                                    *)
(***************************************************************************)
C30_ResetKeepsPricesAndCustomer ==
    [][(/\ pc = "session"
        /\ \/ saved' # <<>>
           \/ (session # NoSession /\ quantities' = DefaultQuantities)) =>
          LET before == SessionState(session, quantities, prices, customer_type,
                                     customer_info)
              after == reset_all_calculations(before)
          IN  /\ DOMAIN after \cap custom_gift_keys = {}
              /\ \A k \in preserve_keys : k \in DOMAIN after /\ after[k] = before[k]
              /\ DOMAIN session' \cap custom_gift_keys = {}
              /\ prices' = prices
              /\ customer_type' = customer_type
              /\ customer_info' = customer_info
      ]_vars

\* After a save by a named Tobacco Shop under an uploaded price table: the
\* calculation is gone, the prices and the customer are still there.
C30_Witness ==
    /\ pc = "session"
    /\ saved # <<>>
    /\ saved[1].prices = prices
    /\ prices # DEFAULT_PRICES
    /\ customer_type = TOBACCO_SHOP
    /\ customer_info # NoCustomerInfo
    /\ session = NoSession

=============================================================================
